---- MODULE Spec2Model ----
(***************************************************************************)
(* Predator-prey ecosystem simulation (sim/cell.py, sim/animal.py,         *)
(* sim/prey.py, sim/predator.py, sim/ecosystem.py, sim/simulation.py).     *)
(*                                                                         *)
(* Reals are kept exact as scaled integers:                                *)
(*   grass is counted in tenths            (1.0 grass  = 10),              *)
(*   energy in 1/(100 * 2^MaxAnimals)      (1.0 energy = EnergyUnit),      *)
(* so that consumed * eat_efficiency and energy / 2 are exact for every    *)
(* value a run within the bounds can produce.                              *)
(***************************************************************************)
EXTENDS Integers, Sequences, FiniteSets, TLC

\* ------------------------------------------------------------------ bounds
MaxAnimals == 3
MaxSteps == 26
ShortSteps == 4
MaxRun == 2
MaxCalls == 1
HuntSteps == 7

\* ------------------------------------------------------- program constants
MOVE == 0
EAT == 1
REPRODUCE == 2

EnergyUnit == 100 * (2 ^ MaxAnimals)

\* x hundredths of one energy point
Hundredths(x) == x * (EnergyUnit \div 100)

INITIAL_ENERGY == Hundredths(5000)
MOVE_COST == Hundredths(200)
REPRODUCTION_COST == Hundredths(4000)
ATTACK_COST == Hundredths(500)
ATTACK_DAMAGE == Hundredths(2500)
EAT_AMOUNT == 150

Species == {"Prey", "Predator"}

max_energy(k) == IF k = "Prey" THEN Hundredths(8000) ELSE Hundredths(12000)
reproduction_threshold(k) == IF k = "Prey" THEN Hundredths(6000) ELSE Hundredths(9000)

\* consumed * eat_efficiency (0.7) for a consumed amount in tenths of grass
GrassEnergy(amount) == amount * Hundredths(7)

\* x * eat_efficiency for an energy x
TimesEatEfficiency(x) == (x * 7) \div 10

\* prey.max_energy * 0.7 and predator.max_energy * 0.6
PreyHungry == Hundredths(5600)
PredatorHungry == Hundredths(7200)

\* neighbor["grass"] > 0.5
GrassThreshold == 5

DirNames == <<"UP", "DOWN", "LEFT", "RIGHT">>
DIRECTIONS == [d \in {"UP", "DOWN", "LEFT", "RIGHT"} |->
                 CASE d = "UP" -> <<-1, 0>>
                   [] d = "DOWN" -> <<1, 0>>
                   [] d = "LEFT" -> <<0, -1>>
                   [] d = "RIGHT" -> <<0, 1>>]

\* ------------------------------------------------------------------- state
Ids == 1..MaxAnimals
None == <<-1, -1>>

\* the values the constructor's random draws range over: the grass of the soil
\* cells (uniform(0.5, 1.0), its two ends) and the cells that may be rock
InitialGrass == {5, 10}
RockCandidates == {<<0, 1>>, <<1, 0>>}

\* the constructor arguments explored: long runs (an animal needs 25 moves to
\* spend its initial energy) of at most one animal of each class on a 2x2 grid
\* at the default regrowth rate 0.1; short runs of up to three animals on a
\* 2x2 grid at the regrowth rates 0.1 and 20.0; short runs on 1x1 and 3x3 grids,
\* one of them without regrowth and one at the regrowth rate 40.0
LongRuns ==
  {[size |-> 2, initial_prey |-> n[1], initial_predators |-> n[2],
    max_steps |-> MaxSteps, grass_regrowth_rate |-> 1] :
     n \in {<<1, 0>>, <<0, 1>>, <<1, 1>>}}

ShortRuns ==
  [size : {2}, initial_prey : {0, 1, 2}, initial_predators : {0, 1},
   max_steps : {0, ShortSteps}, grass_regrowth_rate : {1, 200}]

OtherGrids ==
  {[size |-> n[1], initial_prey |-> n[2], initial_predators |-> n[3],
    max_steps |-> 2, grass_regrowth_rate |-> n[4]] :
     n \in {<<1, 1, 1, 1>>, <<1, 2, 0, 0>>, <<1, 1, 0, 400>>, <<3, 1, 1, 1>>}}

Configs == LongRuns \cup ShortRuns \cup OtherGrids

\* a hunt: one predator needs seven ticks to kill two prey on a 2x2 grid
Hunts ==
  {[size |-> 2, initial_prey |-> 2, initial_predators |-> 1,
    max_steps |-> HuntSteps, grass_regrowth_rate |-> 1]}

VARIABLES
  terrain_type,         \* Cell.terrain_type
  grass_amount,         \* Cell.grass_amount
  occupants,            \* Cell.occupants (ordered)
  kind,                 \* class of each Animal object ("none": not constructed)
  position,             \* Animal.position
  alive,                \* Animal.alive
  energy,               \* Animal.energy
  size,                 \* Ecosystem.size
  animals,              \* Simulation.animals
  max_steps,            \* Simulation.max_steps
  current_step,         \* Simulation.current_step
  grass_regrowth_rate,  \* Ecosystem.grass_regrowth_rate
  pc,                   \* position inside next_step ("raised": the constructor raised)
  idx,                  \* loop index of the running for-loop
  actions,              \* next_step local: [(animal, action)]
  new_animals,          \* next_step local
  dead_animals,         \* next_step local
  ret,                  \* value returned by the last next_step call
  calls,                \* method calls made by transform in this tick, with results
  run                   \* frame of Simulation.run

world == <<terrain_type, grass_amount, occupants, kind, position, alive, energy>>
sim == <<size, animals, max_steps, current_step, grass_regrowth_rate>>
frame == <<pc, idx, actions, new_animals, dead_animals>>
vars == <<world, sim, frame, ret, calls, run>>

\* the coordinates of Ecosystem.map
Cells == (0..(size - 1)) \X (0..(size - 1))

\* ----------------------------------------------------------------- helpers
Min(a, b) == IF a <= b THEN a ELSE b

InSeq(x, s) == \E i \in 1..Len(s) : s[i] = x

Count(x, s) == Cardinality({i \in 1..Len(s) : s[i] = x})

\* list.remove(x): drops the first occurrence
RemoveFirst(s, x) ==
  LET i == CHOOSE j \in 1..Len(s) : s[j] = x /\ \A k \in 1..(j - 1) : s[k] # x
  IN [k \in 1..(Len(s) - 1) |-> IF k < i THEN s[k] ELSE s[k + 1]]

\* ascending sequence of a finite set of integers
RECURSIVE SortedSeq(_)
SortedSeq(S) ==
  IF S = {} THEN <<>>
  ELSE LET m == CHOOSE x \in S : \A y \in S : x <= y
       IN <<m>> \o SortedSeq(S \ {m})

Allocated == {a \in Ids : kind[a] # "none"}

\* the mutable objects the entity methods work on, as one value
World == [occ |-> occupants, pos |-> position, alive |-> alive,
          energy |-> energy, grass |-> grass_amount, kind |-> kind]

\* -------------------------------------------------------------------- Cell
is_fertile(c) == terrain_type[c] = "soil"

has_grass(w, c) == is_fertile(c) /\ w.grass[c] > 0

occupant_count(w, c) == Len(w.occ[c])

get_occupants(w, c) == w.occ[c]

\* mutant: the capacity test admits a third occupant
can_add_animal_allows_third(w, c) == Len(w.occ[c]) <= 2

can_add_animal(w, c) == Len(w.occ[c]) < 2

\* mutant: the amount asked for is taken without clamping it to the grass there
consume_grass_unclamped(w, c, amount) ==
  IF ~is_fertile(c) \/ w.grass[c] <= 0 THEN [w |-> w, ret |-> 0]
  ELSE [w |-> [w EXCEPT !.grass[c] = @ - amount], ret |-> amount]

\* consume_grass(amount): [w: the world afterwards, ret: the amount consumed]
consume_grass(w, c, amount) ==
  IF ~is_fertile(c) \/ w.grass[c] <= 0 THEN [w |-> w, ret |-> 0]
  ELSE LET consumed == Min(w.grass[c], amount)
       IN [w |-> [w EXCEPT !.grass[c] = @ - consumed], ret |-> consumed]

\* mutant: grass also grows on rock
regenerate_grass_on_rock(c, amount) == grass_amount[c] + amount

\* regenerate_grass(amount): the cell's grass afterwards
regenerate_grass(c, amount) ==
  IF is_fertile(c) THEN grass_amount[c] + amount ELSE grass_amount[c]

\* mutant: the animal's position is set before the capacity test
add_animal_sets_position_first(w, c, a) ==
  IF ~can_add_animal(w, c) THEN [w |-> [w EXCEPT !.pos[a] = c], ret |-> FALSE]
  ELSE [w |-> [w EXCEPT !.occ[c] = Append(@, a), !.pos[a] = c], ret |-> TRUE]

\* add_animal(animal): [w, ret: whether the animal was added]
add_animal(w, c, a) ==
  IF ~can_add_animal(w, c) THEN [w |-> w, ret |-> FALSE]
  ELSE [w |-> [w EXCEPT !.occ[c] = Append(@, a), !.pos[a] = c], ret |-> TRUE]

\* mutant: remove_animal clears the position and leaves the list entry behind
remove_animal_keeps_entry(w, c, a) ==
  IF InSeq(a, w.occ[c]) THEN [w EXCEPT !.pos[a] = None] ELSE w

\* remove_animal(animal): the world afterwards
remove_animal(w, c, a) ==
  IF InSeq(a, w.occ[c])
  THEN [w EXCEPT !.occ[c] = RemoveFirst(@, a), !.pos[a] = None]
  ELSE w

\* clear_occupants(): the world afterwards
clear_occupants(w, c) ==
  [w EXCEPT !.occ[c] = <<>>,
            !.pos = [a \in Ids |-> IF InSeq(a, w.occ[c]) THEN None ELSE w.pos[a]]]

\* ------------------------------------------------------------------ Animal
\* the 3x3 offsets in the order see() inserts them into perception["neighbors"]
Offsets == <<<<-1, -1>>, <<-1, 0>>, <<-1, 1>>, <<0, -1>>, <<0, 0>>,
             <<0, 1>>, <<1, -1>>, <<1, 0>>, <<1, 1>>>>

Shift(c, v) == <<c[1] + v[1], c[2] + v[2]>>

\* see(grid): the offsets perceived, in order; empty for a dead or unplaced animal
see(w, a) ==
  IF w.pos[a] = None \/ ~w.alive[a] \/ w.pos[a] \notin Cells
  THEN [valid |-> FALSE, current_cell |-> None, neighbors |-> <<>>]
  ELSE [valid |-> TRUE, current_cell |-> w.pos[a],
        neighbors |-> SelectSeq(Offsets, LAMBDA v : Shift(w.pos[a], v) \in Cells)]

\* mutant: move_cost is paid before the destination is examined
move_charges_blocked(w, a, dir) ==
  IF ~w.alive[a] \/ w.energy[a] < MOVE_COST THEN [w |-> w, ret |-> FALSE]
  ELSE IF w.pos[a] = None THEN [w |-> w, ret |-> FALSE]
  ELSE LET new_cell == Shift(w.pos[a], DIRECTIONS[dir])
           paid == [w EXCEPT !.energy[a] = @ - MOVE_COST]
       IN IF new_cell \in Cells
          THEN IF terrain_type[new_cell] = "rock" \/ ~can_add_animal(w, new_cell)
               THEN [w |-> paid, ret |-> FALSE]
               ELSE LET w1 == remove_animal(paid, w.pos[a], a)
                    IN [w |-> add_animal(w1, new_cell, a).w, ret |-> TRUE]
          ELSE [w |-> paid, ret |-> FALSE]

\* mutant: move does not test the destination's terrain
move_onto_rock(w, a, dir) ==
  IF ~w.alive[a] \/ w.energy[a] < MOVE_COST THEN [w |-> w, ret |-> FALSE]
  ELSE IF w.pos[a] = None THEN [w |-> w, ret |-> FALSE]
  ELSE LET new_cell == Shift(w.pos[a], DIRECTIONS[dir])
       IN IF new_cell \in Cells
          THEN IF ~can_add_animal(w, new_cell)
               THEN [w |-> w, ret |-> FALSE]
               ELSE LET w1 == remove_animal(w, w.pos[a], a)
                        w2 == add_animal(w1, new_cell, a).w
                    IN [w |-> [w2 EXCEPT !.energy[a] = @ - MOVE_COST],
                        ret |-> TRUE]
          ELSE [w |-> w, ret |-> FALSE]

\* mutant: a move refused by a full or rock destination still costs energy
move_charges_refused(w, a, dir) ==
  IF ~w.alive[a] \/ w.energy[a] < MOVE_COST THEN [w |-> w, ret |-> FALSE]
  ELSE IF w.pos[a] = None THEN [w |-> w, ret |-> FALSE]
  ELSE LET new_cell == Shift(w.pos[a], DIRECTIONS[dir])
       IN IF new_cell \in Cells
          THEN IF terrain_type[new_cell] = "rock" \/ ~can_add_animal(w, new_cell)
               THEN [w |-> [w EXCEPT !.energy[a] = @ - MOVE_COST], ret |-> FALSE]
               ELSE LET w1 == remove_animal(w, w.pos[a], a)
                        w2 == add_animal(w1, new_cell, a).w
                    IN [w |-> [w2 EXCEPT !.energy[a] = @ - MOVE_COST],
                        ret |-> TRUE]
          ELSE [w |-> w, ret |-> FALSE]

\* move(direction): [w, ret]
move(w, a, dir) ==
  IF ~w.alive[a] \/ w.energy[a] < MOVE_COST THEN [w |-> w, ret |-> FALSE]
  ELSE IF w.pos[a] = None THEN [w |-> w, ret |-> FALSE]
  ELSE LET new_cell == Shift(w.pos[a], DIRECTIONS[dir])
       IN IF new_cell \in Cells
          THEN IF terrain_type[new_cell] = "rock" \/ ~can_add_animal(w, new_cell)
               THEN [w |-> w, ret |-> FALSE]
               ELSE LET w1 == remove_animal(w, w.pos[a], a)
                        w2 == add_animal(w1, new_cell, a).w
                    IN [w |-> [w2 EXCEPT !.energy[a] = @ - MOVE_COST],
                        ret |-> TRUE]
          ELSE [w |-> w, ret |-> FALSE]

\* the guard of reproduce()
reproduce_would_succeed(w, a) ==
  /\ w.alive[a]
  /\ w.energy[a] >= reproduction_threshold(w.kind[a])
  /\ w.pos[a] # None
  /\ can_add_animal(w, w.pos[a])

\* the object the next constructor call creates
NewId == CHOOSE a \in Ids : kind[a] = "none" /\ \A b \in Ids : kind[b] = "none" => a <= b

\* mutant: the offspring gets half of what the parent keeps
reproduce_halves_after_cost(w, a) ==
  IF ~reproduce_would_succeed(w, a)
  THEN [w |-> w, ret |-> FALSE]
  ELSE LET offspring == NewId
           w1 == [w EXCEPT !.kind[offspring] = w.kind[a],
                           !.pos[offspring] = w.pos[a],
                           !.alive[offspring] = TRUE,
                           !.energy[offspring] = (w.energy[a] - REPRODUCTION_COST) \div 2,
                           !.energy[a] = @ - REPRODUCTION_COST]
       IN add_animal(w1, w.pos[a], offspring)

\* reproduce(): [w, ret]
reproduce(w, a) ==
  IF ~reproduce_would_succeed(w, a)
  THEN [w |-> w, ret |-> FALSE]
  ELSE LET offspring == NewId
           w1 == [w EXCEPT !.kind[offspring] = w.kind[a],
                           !.pos[offspring] = w.pos[a],
                           !.alive[offspring] = TRUE,
                           !.energy[offspring] = w.energy[a] \div 2,
                           !.energy[a] = @ - REPRODUCTION_COST]
       IN add_animal(w1, w.pos[a], offspring)

\* -------------------------------------------------------------------- Prey
\* mutant: the energy gained from grass is not clamped to max_energy
prey_eat_unclamped(w, a) ==
  IF w.pos[a] = None \/ ~has_grass(w, w.pos[a]) THEN [w |-> w, ret |-> 0]
  ELSE LET c == consume_grass(w, w.pos[a], EAT_AMOUNT)
           energy_gain == GrassEnergy(c.ret)
       IN [w |-> [c.w EXCEPT !.energy[a] = @ + energy_gain], ret |-> energy_gain]

\* Prey.eat(): [w, ret: energy gained]
prey_eat(w, a) ==
  IF w.pos[a] = None \/ ~has_grass(w, w.pos[a]) THEN [w |-> w, ret |-> 0]
  ELSE LET c == consume_grass(w, w.pos[a], EAT_AMOUNT)
           energy_gain == GrassEnergy(c.ret)
       IN [w |-> [c.w EXCEPT !.energy[a] =
                     Min(@ + energy_gain, max_energy(w.kind[a]))],
           ret |-> energy_gain]

\* ---------------------------------------------------------------- Predator
\* mutant: an attack that does not kill costs the predator nothing
predator_eat_free_attack(w, a, prey) ==
  IF ~w.alive[a] \/ ~w.alive[prey] \/ w.pos[a] # w.pos[prey]
  THEN [w |-> w, ret |-> 0, raised |-> ""]
  ELSE LET w1 == [w EXCEPT !.energy[a] = @ - ATTACK_COST]
       IN IF w1.energy[a] <= 0
          THEN [w |-> [w1 EXCEPT !.alive[a] = FALSE], ret |-> 0, raised |-> ""]
          ELSE LET w2 == [w1 EXCEPT !.energy[prey] = @ - ATTACK_DAMAGE]
               IN IF w2.energy[prey] <= 0
                  THEN LET w3 == remove_animal([w2 EXCEPT !.alive[prey] = FALSE],
                                               w2.pos[a], prey)
                           energy_gain == TimesEatEfficiency(max_energy(w.kind[prey]))
                       IN [w |-> [w3 EXCEPT !.energy[a] =
                                     Min(@ + energy_gain, max_energy(w.kind[a]))],
                           ret |-> energy_gain, raised |-> ""]
                  ELSE [w |-> [w2 EXCEPT !.energy[a] = w.energy[a]], ret |-> 0, raised |-> ""]

\* mutant: the energy gained from a kill is not clamped to the predator's max_energy
predator_eat_unclamped(w, a, prey) ==
  IF ~w.alive[a] \/ ~w.alive[prey] \/ w.pos[a] # w.pos[prey]
  THEN [w |-> w, ret |-> 0, raised |-> ""]
  ELSE LET w1 == [w EXCEPT !.energy[a] = @ - ATTACK_COST]
       IN IF w1.energy[a] <= 0
          THEN [w |-> [w1 EXCEPT !.alive[a] = FALSE], ret |-> 0, raised |-> ""]
          ELSE LET w2 == [w1 EXCEPT !.energy[prey] = @ - ATTACK_DAMAGE]
               IN IF w2.energy[prey] <= 0
                  THEN LET w3 == remove_animal([w2 EXCEPT !.alive[prey] = FALSE],
                                               w2.pos[a], prey)
                           energy_gain == TimesEatEfficiency(max_energy(w.kind[prey]))
                       IN [w |-> [w3 EXCEPT !.energy[a] = @ + energy_gain],
                           ret |-> energy_gain, raised |-> ""]
                  ELSE [w |-> w2, ret |-> 0, raised |-> ""]

\* Predator.eat(prey): [w, ret: energy gained, raised: "" when the call returned].
\* The position test compares the two references, so two unplaced animals
\* pass it; self.position.remove_animal(prey) then raises on an unplaced predator.
predator_eat(w, a, prey) ==
  IF ~w.alive[a] \/ ~w.alive[prey] \/ w.pos[a] # w.pos[prey]
  THEN [w |-> w, ret |-> 0, raised |-> ""]
  ELSE LET w1 == [w EXCEPT !.energy[a] = @ - ATTACK_COST]
       IN IF w1.energy[a] <= 0
          THEN [w |-> [w1 EXCEPT !.alive[a] = FALSE], ret |-> 0, raised |-> ""]
          ELSE LET w2 == [w1 EXCEPT !.energy[prey] = @ - ATTACK_DAMAGE]
               IN IF w2.energy[prey] <= 0 /\ w2.pos[a] = None
                  THEN [w |-> [w2 EXCEPT !.alive[prey] = FALSE], ret |-> 0,
                        raised |-> "AttributeError"]
                  ELSE IF w2.energy[prey] <= 0
                  THEN LET w3 == remove_animal([w2 EXCEPT !.alive[prey] = FALSE],
                                               w2.pos[a], prey)
                           energy_gain == TimesEatEfficiency(max_energy(w.kind[prey]))
                       IN [w |-> [w3 EXCEPT !.energy[a] =
                                     Min(@ + energy_gain, max_energy(w.kind[a]))],
                           ret |-> energy_gain, raised |-> ""]
                  ELSE [w |-> w2, ret |-> 0, raised |-> ""]

\* Prey.action(perception): the actions its random draws can return
prey_action(w, a) ==
  LET per == see(w, a)
      cur == per.current_cell
      nbrs == {per.neighbors[i] : i \in 1..Len(per.neighbors)}
      threat == per.valid /\ \E i \in 1..Len(w.occ[cur]) : w.alive[w.occ[cur][i]]
      safe_dirs == {d \in DOMAIN DIRECTIONS :
                      /\ DIRECTIONS[d] \in nbrs
                      /\ terrain_type[Shift(cur, DIRECTIONS[d])] = "soil"
                      /\ can_add_animal(w, Shift(cur, DIRECTIONS[d]))}
      grass_dirs == {v \in nbrs :
                      /\ terrain_type[Shift(cur, v)] = "soil"
                      /\ w.grass[Shift(cur, v)] > GrassThreshold
                      /\ can_add_animal(w, Shift(cur, v))}
      named == SelectSeq(DirNames, LAMBDA d : DIRECTIONS[d] \in grass_dirs)
  IN IF threat /\ safe_dirs # {}
     THEN {<<MOVE, <<d>>>> : d \in safe_dirs}
     ELSE IF w.energy[a] < PreyHungry /\ per.valid /\ has_grass(w, cur)
     THEN {<<EAT, <<>>>>}
     ELSE IF w.energy[a] >= reproduction_threshold(w.kind[a])
             /\ can_add_animal(w, w.pos[a])
     THEN {<<REPRODUCE, <<>>>>}
     ELSE IF named # <<>>
     THEN {<<MOVE, <<named[1]>>>>}
     ELSE {<<MOVE, <<d>>>> : d \in DOMAIN DIRECTIONS}

\* mutant: the predator does not look for prey in its own cell
predator_action_ignores_own_cell(w, a) ==
  LET per == see(w, a)
      cur == per.current_cell
      HasPrey(v) == \E i \in 1..Len(w.occ[Shift(cur, v)]) :
                       w.kind[w.occ[Shift(cur, v)][i]] = "Prey"
      HasLivePrey(v) == \E i \in 1..Len(w.occ[Shift(cur, v)]) :
                           /\ w.kind[w.occ[Shift(cur, v)][i]] = "Prey"
                           /\ w.alive[w.occ[Shift(cur, v)][i]]
      Named(v) == \E d \in DOMAIN DIRECTIONS : DIRECTIONS[d] = v
      NameOf(v) == CHOOSE d \in DOMAIN DIRECTIONS : DIRECTIONS[d] = v
      prey_dirs == SelectSeq(per.neighbors, LAMBDA v : HasPrey(v) /\ Named(v))
      toward == SelectSeq(per.neighbors, LAMBDA v : HasLivePrey(v) /\ Named(v))
  IN IF prey_dirs # <<>>
     THEN {<<MOVE, <<NameOf(prey_dirs[i])>>>> : i \in 1..Len(prey_dirs)}
     ELSE IF w.energy[a] < PredatorHungry /\ toward # <<>>
     THEN {<<MOVE, <<NameOf(toward[1])>>>>}
     ELSE IF w.energy[a] >= reproduction_threshold(w.kind[a])
             /\ can_add_animal(w, w.pos[a])
     THEN {<<REPRODUCE, <<>>>>}
     ELSE {<<MOVE, <<d>>>> : d \in DOMAIN DIRECTIONS}

\* Predator.action(perception): the actions its random draws can return
predator_action(w, a) ==
  LET per == see(w, a)
      cur == per.current_cell
      here == IF per.valid
              THEN SelectSeq(w.occ[cur],
                             LAMBDA o : w.kind[o] = "Prey" /\ w.alive[o])
              ELSE <<>>
      HasPrey(v) == \E i \in 1..Len(w.occ[Shift(cur, v)]) :
                       w.kind[w.occ[Shift(cur, v)][i]] = "Prey"
      HasLivePrey(v) == \E i \in 1..Len(w.occ[Shift(cur, v)]) :
                           /\ w.kind[w.occ[Shift(cur, v)][i]] = "Prey"
                           /\ w.alive[w.occ[Shift(cur, v)][i]]
      Named(v) == \E d \in DOMAIN DIRECTIONS : DIRECTIONS[d] = v
      NameOf(v) == CHOOSE d \in DOMAIN DIRECTIONS : DIRECTIONS[d] = v
      prey_dirs == SelectSeq(per.neighbors, LAMBDA v : HasPrey(v) /\ Named(v))
      toward == SelectSeq(per.neighbors, LAMBDA v : HasLivePrey(v) /\ Named(v))
  IN IF here # <<>>
     THEN {<<EAT, <<here[1]>>>>}
     ELSE IF prey_dirs # <<>>
     THEN {<<MOVE, <<NameOf(prey_dirs[i])>>>> : i \in 1..Len(prey_dirs)}
     ELSE IF w.energy[a] < PredatorHungry /\ toward # <<>>
     THEN {<<MOVE, <<NameOf(toward[1])>>>>}
     ELSE IF w.energy[a] >= reproduction_threshold(w.kind[a])
             /\ can_add_animal(w, w.pos[a])
     THEN {<<REPRODUCE, <<>>>>}
     ELSE {<<MOVE, <<d>>>> : d \in DOMAIN DIRECTIONS}

\* animal.action(perception), dispatched on the animal's class
action(w, a) ==
  IF w.kind[a] = "Predator" THEN predator_action(w, a) ELSE prey_action(w, a)

\* --------------------------------------------------------------- Ecosystem
\* transform(animal, action):
\*   [w, alive, offspring, call: the entity method called and what it returned]
transform(w, a, act) ==
  IF act[1] = MOVE
  THEN LET r == move(w, a, act[2][1])
       IN [w |-> r.w, alive |-> r.w.alive[a], offspring |-> <<>>,
           call |-> [who |-> a, op |-> "move", dir |-> act[2][1], target |-> 0,
                     ok |-> r.ret, gain |-> 0]]
  ELSE IF act[1] = EAT
  THEN IF w.kind[a] = "Predator" /\ Len(act[2]) > 0 /\ w.kind[act[2][1]] = "Prey"
       THEN LET r == predator_eat(w, a, act[2][1])
            IN [w |-> r.w, alive |-> r.w.alive[a], offspring |-> <<>>,
                call |-> [who |-> a, op |-> "eat", dir |-> "", target |-> act[2][1],
                          ok |-> TRUE, gain |-> r.ret, raised |-> r.raised]]
       ELSE LET r == prey_eat(w, a)
            IN [w |-> r.w, alive |-> r.w.alive[a], offspring |-> <<>>,
                call |-> [who |-> a, op |-> "eat", dir |-> "", target |-> 0,
                          ok |-> TRUE, gain |-> r.ret]]
  ELSE IF act[1] = REPRODUCE
  THEN LET r == reproduce(w, a)
           cell == r.w.occ[r.w.pos[a]]
       IN [w |-> r.w, alive |-> r.w.alive[a],
           offspring |-> IF r.ret THEN <<cell[Len(cell)]>> ELSE <<>>,
           call |-> [who |-> a, op |-> "reproduce", dir |-> "", target |-> 0,
                     ok |-> r.ret, gain |-> 0]]
  ELSE [w |-> w, alive |-> w.alive[a], offspring |-> <<>>,
        call |-> [who |-> a, op |-> "none", dir |-> "", target |-> 0,
                  ok |-> FALSE, gain |-> 0]]

\* the objects of the model are bounded: a reproduce() that would construct an
\* offspring needs an unused object
CanConstruct(w, a, act) ==
  (act[1] = REPRODUCE /\ reproduce_would_succeed(w, a))
    => \E b \in Ids : kind[b] = "none"

\* ------------------------------------------------------------ construction
\* Ecosystem.__init__ and Simulation._initialize_animals: every outcome of the
\* random terrain, grass and placement draws in which the placement loops end.
Grid(n) == (0..(n - 1)) \X (0..(n - 1))

Placements(n, soil) ==
  {pl \in [1..n -> soil] :
     \A c \in soil : Cardinality({a \in 1..n : pl[a] = c}) <= 2}

\* Simulation(**cfg)
Construct(cfg) ==
  \E g \in InitialGrass :
   \E rocks \in SUBSET (RockCandidates \cap Grid(cfg.size)) :
   LET np == cfg.initial_prey
       nq == cfg.initial_predators
       grid == Grid(cfg.size)
   IN
    /\ np + nq <= MaxAnimals
    /\ size = cfg.size
    /\ max_steps = cfg.max_steps
    /\ grass_regrowth_rate = cfg.grass_regrowth_rate
    /\ \E pl \in Placements(np + nq, grid \ rocks) :
         /\ terrain_type = [c \in grid |-> IF c \in rocks THEN "rock" ELSE "soil"]
         /\ grass_amount = [c \in grid |-> IF c \in rocks THEN 0 ELSE g]
         /\ occupants = [c \in grid |->
                           SortedSeq({a \in 1..(np + nq) : pl[a] = c})]
         /\ kind = [a \in Ids |-> IF a <= np THEN "Prey"
                                   ELSE IF a <= np + nq THEN "Predator"
                                   ELSE "none"]
         /\ position = [a \in Ids |-> IF a <= np + nq THEN pl[a] ELSE None]
         /\ alive = [a \in Ids |-> a <= np + nq]
         /\ energy = [a \in Ids |-> IF a <= np + nq THEN INITIAL_ENERGY ELSE 0]
         /\ animals = [i \in 1..(np + nq) |-> i]
    /\ current_step = 0
    /\ pc = "idle"
    /\ idx = 0
    /\ actions = <<>>
    /\ new_animals = <<>>
    /\ dead_animals = <<>>
    /\ ret = "none"
    /\ calls = <<>>
    /\ run = [active |-> FALSE, returned |-> FALSE, steps |-> 0, left |-> 0,
              start |-> 0]

Init == \E cfg \in Configs : Construct(cfg)

\* constructor arguments with a grid side that is not positive
Invalids ==
  [size : {-1, 0}, initial_prey : {0, 1}, initial_predators : {0, 1},
   max_steps : {2}, grass_regrowth_rate : {1}]

\* Simulation(**cfg) with size <= 0: the range(size) loops of Ecosystem.__init__
\* build an empty map, and the first placement, if there is one, draws
\* random.randint(0, size - 1), which raises ValueError
ConstructEmpty(cfg) ==
  /\ size = cfg.size
  /\ max_steps = cfg.max_steps
  /\ grass_regrowth_rate = cfg.grass_regrowth_rate
  /\ terrain_type = [c \in {} |-> "soil"]
  /\ grass_amount = [c \in {} |-> 0]
  /\ occupants = [c \in {} |-> <<>>]
  /\ kind = [a \in Ids |-> "none"]
  /\ position = [a \in Ids |-> None]
  /\ alive = [a \in Ids |-> FALSE]
  /\ energy = [a \in Ids |-> 0]
  /\ animals = <<>>
  /\ current_step = 0
  /\ pc = IF cfg.initial_prey + cfg.initial_predators > 0 THEN "raised" ELSE "idle"
  /\ idx = 0
  /\ actions = <<>>
  /\ new_animals = <<>>
  /\ dead_animals = <<>>
  /\ ret = "none"
  /\ calls = <<>>
  /\ run = [active |-> FALSE, returned |-> FALSE, steps |-> 0, left |-> 0,
            start |-> 0]

\* the constructor called with any grid side
InitAnySize ==
  \E cfg \in OtherGrids \cup Invalids :
    IF cfg.size <= 0 THEN ConstructEmpty(cfg) ELSE Construct(cfg)

\* ------------------------------------------------------------- Simulation
\* the entity methods write their results back into the objects
Store(w) ==
  /\ occupants' = w.occ
  /\ position' = w.pos
  /\ alive' = w.alive
  /\ energy' = w.energy
  /\ grass_amount' = w.grass
  /\ kind' = w.kind
  /\ UNCHANGED terrain_type

\* mutant: the halt test lets one more step through
Halted_off_by_one == current_step > max_steps

\* the halt test of next_step
Halted == current_step >= max_steps

\* next_step() at current_step >= max_steps: return False
ReturnFalse ==
  /\ ret' = "false"
  /\ UNCHANGED <<world, sim, frame, calls>>

\* next_step() past the halt test: actions = []
Enter ==
  /\ pc' = "decide"
  /\ idx' = 1
  /\ actions' = <<>>
  /\ calls' = <<>>
  /\ ret' = "none"
  /\ UNCHANGED <<world, sim, new_animals, dead_animals>>

\* next_step() called by the user while halted
NextStepHalted ==
  /\ pc = "idle"
  /\ ~run.active
  /\ Halted
  /\ ReturnFalse
  /\ UNCHANGED run

\* next_step() called by the user while running
NextStepBegin ==
  /\ pc = "idle"
  /\ ~run.active
  /\ ~Halted
  /\ Enter
  /\ UNCHANGED run

\* mutant: each decision is applied as soon as it is taken
Decide_and_apply ==
  /\ pc = "decide"
  /\ idx <= Len(animals)
  /\ LET animal == animals[idx]
     IN IF alive[animal]
        THEN \E act \in action(World, animal) :
               /\ CanConstruct(World, animal, act)
               /\ actions' = Append(actions, <<animal, act>>)
               /\ Store(transform(World, animal, act).w)
        ELSE /\ actions' = actions
             /\ UNCHANGED world
  /\ idx' = idx + 1
  /\ UNCHANGED <<sim, pc, new_animals, dead_animals, ret, calls, run>>

\* phase 1: one iteration of the perceive-and-decide loop
Decide ==
  /\ pc = "decide"
  /\ idx <= Len(animals)
  /\ LET animal == animals[idx]
     IN IF alive[animal]
        THEN \E act \in action(World, animal) :
               actions' = Append(actions, <<animal, act>>)
        ELSE actions' = actions
  /\ idx' = idx + 1
  /\ UNCHANGED <<world, sim, pc, new_animals, dead_animals, ret, calls, run>>

\* phase 1 is over: new_animals = [], dead_animals = []
DecideDone ==
  /\ pc = "decide"
  /\ idx > Len(animals)
  /\ pc' = "predators"
  /\ idx' = 1
  /\ new_animals' = <<>>
  /\ dead_animals' = <<>>
  /\ UNCHANGED <<world, sim, actions, ret, calls, run>>

\* mutant: the two phase-2 loops are swapped
ClassOfLoop_prey_first(loop) == IF loop = "predators" THEN "Prey" ELSE "Predator"

\* the class whose actions a phase-2 loop executes: predators first, then prey
ClassOfLoop(loop) == IF loop = "predators" THEN "Predator" ELSE "Prey"

\* the body of the phase-2 loops for entry idx of actions
Execute(loop) ==
  LET animal == actions[idx][1]
      act == actions[idx][2]
  IN IF kind[animal] = ClassOfLoop(loop) /\ alive[animal]
     THEN /\ CanConstruct(World, animal, act)
          /\ LET t == transform(World, animal, act)
             IN /\ Store(t.w)
                /\ dead_animals' = IF ~t.alive THEN Append(dead_animals, animal)
                                   ELSE dead_animals
                /\ new_animals' = new_animals \o t.offspring
                /\ calls' = Append(calls, t.call)
     ELSE UNCHANGED <<world, new_animals, dead_animals, calls>>

\* phase 2, first loop: predator actions
ExecutePredators ==
  /\ pc = "predators"
  /\ idx <= Len(actions)
  /\ Execute("predators")
  /\ idx' = idx + 1
  /\ UNCHANGED <<sim, pc, actions, ret, run>>

PredatorsDone ==
  /\ pc = "predators"
  /\ idx > Len(actions)
  /\ pc' = "prey"
  /\ idx' = 1
  /\ UNCHANGED <<world, sim, actions, new_animals, dead_animals, ret, calls, run>>

\* phase 2, second loop: prey actions
ExecutePrey ==
  /\ pc = "prey"
  /\ idx <= Len(actions)
  /\ Execute("prey")
  /\ idx' = idx + 1
  /\ UNCHANGED <<sim, pc, actions, ret, run>>

PreyDone ==
  /\ pc = "prey"
  /\ idx > Len(actions)
  /\ pc' = "update"
  /\ idx' = 0
  /\ UNCHANGED <<world, sim, actions, new_animals, dead_animals, ret, calls, run>>

\* mutant: the animals that died in the tick stay in the list
UpdatedAnimals_keeps_dead == animals \o new_animals

\* mutant: the offspring of the tick are admitted twice
UpdatedAnimals_admits_twice ==
  SelectSeq(animals, LAMBDA a : alive[a] /\ ~InSeq(a, dead_animals))
    \o new_animals \o new_animals

\* mutant: the offspring of the tick are not admitted
UpdatedAnimals_drops_offspring ==
  SelectSeq(animals, LAMBDA a : alive[a] /\ ~InSeq(a, dead_animals))

\* Simulation.animals after the update of the animal list
UpdatedAnimals ==
  SelectSeq(animals, LAMBDA a : alive[a] /\ ~InSeq(a, dead_animals)) \o new_animals

\* the rest of next_step: animal list, Ecosystem.regenerate_grass, counter, return
Update ==
  /\ pc = "update"
  /\ animals' = UpdatedAnimals
  /\ grass_amount' = [c \in Cells |-> regenerate_grass(c, grass_regrowth_rate)]
  /\ current_step' = current_step + 1
  /\ ret' = "true"
  /\ pc' = "idle"
  /\ actions' = <<>>
  /\ new_animals' = <<>>
  /\ dead_animals' = <<>>
  /\ calls' = <<>>
  /\ UNCHANGED <<terrain_type, occupants, kind, position, alive, energy,
                 size, max_steps, grass_regrowth_rate, idx, run>>

\* get_population_counts(): (prey, predators)
get_population_counts ==
  <<Cardinality({i \in 1..Len(animals) :
                   kind[animals[i]] = "Prey" /\ alive[animals[i]]}),
    Cardinality({i \in 1..Len(animals) :
                   kind[animals[i]] = "Predator" /\ alive[animals[i]]})>>

Tick ==
  \/ Decide
  \/ DecideDone
  \/ ExecutePredators
  \/ PredatorsDone
  \/ ExecutePrey
  \/ PreyDone
  \/ Update

Next ==
  \/ NextStepHalted
  \/ NextStepBegin
  \/ Tick

Spec == Init /\ [][Next]_vars

\* ---------------------------------------------------------- Simulation.run
\* run(steps): steps = steps or self.max_steps
RunCall ==
  /\ pc = "idle"
  /\ ~run.active
  /\ \E steps \in 0..MaxRun :
       run' = [active |-> TRUE, returned |-> FALSE, steps |-> steps,
               left |-> IF steps = 0 THEN max_steps ELSE steps,
               start |-> current_step]
  /\ UNCHANGED <<world, sim, frame, ret, calls>>

\* one iteration of the for-loop: if not self.next_step(): break
RunIterate ==
  /\ pc = "idle"
  /\ run.active
  /\ run.left > 0
  /\ \/ /\ Halted
        /\ ReturnFalse
        /\ run' = [run EXCEPT !.active = FALSE, !.returned = TRUE]
     \/ /\ ~Halted
        /\ Enter
        /\ run' = [run EXCEPT !.left = @ - 1]

\* range(steps) is exhausted
RunReturn ==
  /\ pc = "idle"
  /\ run.active
  /\ run.left = 0
  /\ run' = [run EXCEPT !.active = FALSE, !.returned = TRUE]
  /\ UNCHANGED <<world, sim, frame, ret, calls>>

InitRun == Init /\ max_steps < MaxSteps /\ grass_regrowth_rate = 1 /\ Len(animals) <= 2

NextRun ==
  \/ RunCall
  \/ RunIterate
  \/ RunReturn
  \/ Tick

SpecRun == InitRun /\ [][NextRun]_vars

SpecAnySize == InitAnySize /\ [][Next]_vars

\* the hunts, driven by next_step() calls
InitHunt == \E cfg \in Hunts : Construct(cfg)

SpecHunt == InitHunt /\ [][Next]_vars

\* ------------------------------------------- the entity methods, called directly
\* once the simulation has halted, a caller may go on calling the methods of the
\* animals it holds; `calls` then logs these calls
\* the caller makes MaxCalls calls, and as many again on a grid of one cell
CallBudget == IF size = 1 THEN 2 * MaxCalls ELSE MaxCalls

MayCall ==
  /\ pc = "idle"
  /\ ~run.active
  /\ Halted
  /\ Len(calls) < CallBudget

\* animal.move(direction) on any animal constructed so far
CallMove ==
  /\ MayCall
  /\ \E a \in Allocated, dir \in DOMAIN DIRECTIONS :
       LET r == move(World, a, dir)
       IN /\ Store(r.w)
          /\ calls' = Append(calls, [who |-> a, op |-> "move", dir |-> dir,
                                   target |-> 0, ok |-> r.ret, gain |-> 0])
  /\ UNCHANGED <<sim, frame, ret, run>>

\* predator.eat(prey)
CallPredatorEat ==
  /\ MayCall
  /\ \E a \in Allocated, prey \in Allocated :
       /\ kind[a] = "Predator"
       /\ kind[prey] = "Prey"
       /\ LET r == predator_eat(World, a, prey)
          IN /\ Store(r.w)
             /\ calls' = Append(calls, [who |-> a, op |-> "eat", dir |-> "",
                                      target |-> prey, ok |-> TRUE,
                                      gain |-> r.ret, raised |-> r.raised])
  /\ UNCHANGED <<sim, frame, ret, run>>

\* prey.eat()
CallPreyEat ==
  /\ MayCall
  /\ \E a \in Allocated :
       /\ kind[a] = "Prey"
       /\ LET r == prey_eat(World, a)
          IN /\ Store(r.w)
             /\ calls' = Append(calls, [who |-> a, op |-> "eat", dir |-> "",
                                      target |-> 0, ok |-> TRUE, gain |-> r.ret])
  /\ UNCHANGED <<sim, frame, ret, run>>

\* animal.reproduce()
CallReproduce ==
  /\ MayCall
  /\ \E a \in Allocated :
       /\ CanConstruct(World, a, <<REPRODUCE, <<>>>>)
       /\ LET r == reproduce(World, a)
          IN /\ Store(r.w)
             /\ calls' = Append(calls, [who |-> a, op |-> "reproduce", dir |-> "",
                                      target |-> 0, ok |-> r.ret, gain |-> 0])
  /\ UNCHANGED <<sim, frame, ret, run>>

NextCalls ==
  \/ Next
  \/ CallMove
  \/ CallPredatorEat
  \/ CallPreyEat
  \/ CallReproduce

SpecCalls == Init /\ [][NextCalls]_vars

\* ------------------------------------------------------------- Animal.step
\* the result of a step() call: raised is "" when the call returned
StepResult(w, alive_status, offspring, raised) ==
  [w |-> w, ret |-> alive_status, offspring |-> offspring, raised |-> raised]

\* self.action({}): see() hands an empty dict to a dead or unplaced animal.
\* Prey.action skips its first two tests, evaluates the reproduction test and
\* then reads perception["neighbors"]; Predator.action reads
\* perception["neighbors"] right after its first test.
action_without_perception(w, a) ==
  IF w.kind[a] = "Prey" /\ w.energy[a] >= reproduction_threshold(w.kind[a])
  THEN IF w.pos[a] = None THEN "AttributeError"
       ELSE IF can_add_animal(w, w.pos[a]) THEN "" ELSE "KeyError"
  ELSE "KeyError"

\* step(perception) with perception = see(grid): the results its random draws
\* can produce
step(w, a) ==
  LET per == see(w, a)
  IN IF ~per.valid
     THEN IF action_without_perception(w, a) # ""
          THEN {StepResult(w, FALSE, <<>>, action_without_perception(w, a))}
          ELSE IF ~w.alive[a]
          THEN {StepResult(w, FALSE, <<>>, "")}
          ELSE IF w.energy[a] <= 0
          THEN {StepResult([w EXCEPT !.alive[a] = FALSE], FALSE, <<>>, "")}
          ELSE LET r == reproduce(w, a)
               IN {StepResult(r.w, r.w.alive[a], <<>>, "")}
     ELSE {IF w.energy[a] <= 0
           THEN StepResult(remove_animal([w EXCEPT !.alive[a] = FALSE], w.pos[a], a),
                           FALSE, <<>>, "")
           ELSE IF act[1] = MOVE
           THEN StepResult(move(w, a, act[2][1]).w, TRUE, <<>>, "")
           ELSE IF act[1] = EAT
           THEN IF w.kind[a] = "Predator"
                THEN StepResult(w, TRUE, <<>>, "TypeError")
                ELSE StepResult(prey_eat(w, a).w, TRUE, <<>>, "")
           ELSE LET r == reproduce(w, a)
                    cell == r.w.occ[r.w.pos[a]]
                IN StepResult(r.w, TRUE,
                              IF r.ret THEN <<cell[Len(cell)]>> ELSE <<>>, "")
            : act \in {x \in action(w, a) : CanConstruct(w, a, x)}}

\* animal.step(animal.see(grid)) on any animal constructed so far
CallAnimalStep ==
  /\ MayCall
  /\ \E a \in Allocated :
       \E r \in step(World, a) :
         /\ Store(r.w)
         /\ calls' = Append(calls, [who |-> a, op |-> "step", ok |-> r.ret,
                                  offspring |-> r.offspring, raised |-> r.raised])
  /\ UNCHANGED <<sim, frame, ret, run>>

InitShort == Init /\ max_steps <= ShortSteps

NextStep ==
  \/ Next
  \/ CallAnimalStep

SpecStep == InitShort /\ [][NextStep]_vars

\* ---------------------------------------------- the Cell methods, called directly
\* the amounts a caller asks consume_grass for: nothing, less than any initial
\* grass, and the eat_amount of a Prey
Amounts == {0, 3, EAT_AMOUNT}

\* once a short simulation has halted, a caller may go on calling the methods of
\* the cells of the grid; `calls` then logs these calls
MayCallCell ==
  /\ pc = "idle"
  /\ ~run.active
  /\ Halted
  /\ Len(calls) < MaxCalls

\* cell.consume_grass(amount) on any cell of the grid
CallConsumeGrass ==
  /\ MayCallCell
  /\ \E c \in Cells, amount \in Amounts :
       LET r == consume_grass(World, c, amount)
       IN /\ Store(r.w)
          /\ calls' = Append(calls, [op |-> "consume_grass", cell |-> c,
                                   amount |-> amount, ret |-> r.ret])
  /\ UNCHANGED <<sim, frame, ret, run>>

\* cell.add_animal(animal) on any cell, with any animal constructed so far
CallAddAnimal ==
  /\ MayCallCell
  /\ \E c \in Cells, a \in Allocated :
       LET r == add_animal(World, c, a)
       IN /\ Store(r.w)
          /\ calls' = Append(calls, [op |-> "add_animal", cell |-> c,
                                   who |-> a, ok |-> r.ret])
  /\ UNCHANGED <<sim, frame, ret, run>>

\* cell.remove_animal(animal) on any cell, with any animal constructed so far
CallRemoveAnimal ==
  /\ MayCallCell
  /\ \E c \in Cells, a \in Allocated :
       /\ Store(remove_animal(World, c, a))
       /\ calls' = Append(calls, [op |-> "remove_animal", cell |-> c, who |-> a])
  /\ UNCHANGED <<sim, frame, ret, run>>

\* cell.clear_occupants() on any cell of the grid
CallClearOccupants ==
  /\ MayCallCell
  /\ \E c \in Cells :
       /\ Store(clear_occupants(World, c))
       /\ calls' = Append(calls, [op |-> "clear_occupants", cell |-> c])
  /\ UNCHANGED <<sim, frame, ret, run>>

InitCells == Init /\ max_steps < ShortSteps

NextCells ==
  \/ Next
  \/ CallConsumeGrass
  \/ CallAddAnimal
  \/ CallRemoveAnimal
  \/ CallClearOccupants

SpecCells == InitCells /\ [][NextCells]_vars

\* the animals detached from their cells by a caller, and then told to attack
NextDetached ==
  \/ Next
  \/ CallRemoveAnimal
  \/ CallClearOccupants
  \/ CallPredatorEat

SpecDetached == InitCells /\ [][NextDetached]_vars

\* ================================================================== claims
IndexOf(s, x) == CHOOSE i \in 1..Len(s) : s[i] = x

LastCall == calls[Len(calls)]

\* a step in which transform, or a caller, has just called an entity method
CallStep == Len(calls') = Len(calls) + 1

\* C1: in every reachable state, also inside a tick after each single move,
\* reproduce or eat, every cell of the grid holds at most 2 occupants.
C1_OccupancyBound ==
  \A c \in Cells : occupant_count(World, c) <= 2

\* a move or a reproduce has just filled a cell to its capacity
C1_Witness ==
  /\ pc \in {"predators", "prey"}
  /\ calls # <<>>
  /\ LastCall.op \in {"move", "reproduce"}
  /\ LastCall.ok
  /\ occupant_count(World, position[LastCall.who]) = 2

\* C2: after construction and after every advance(), every agent of the live
\* population has a position that is a cell of the grid, is listed exactly once
\* by that cell and is listed by no other cell.
C2_ReferenceConsistency ==
  pc = "idle" =>
    \A i \in 1..Len(animals) :
      LET a == animals[i]
      IN /\ position[a] \in Cells
         /\ Count(a, occupants[position[a]]) = 1
         /\ \A c \in Cells \ {position[a]} : Count(a, occupants[c]) = 0

\* an advance() has returned after an animal died, with two animals still live
C2_Witness ==
  /\ pc = "idle"
  /\ ret = "true"
  /\ Len(animals) >= 2
  /\ \E a \in Allocated : ~alive[a]
  /\ \E i \in 1..Len(animals) : position[animals[i]] # <<0, 0>>

\* C3: in every reachable state, no agent with alive == false is listed by any
\* cell, whatever the cause of its death.
C3_DeadHoldsNoCell ==
  \A a \in Allocated :
    ~alive[a] => \A c \in Cells : ~InSeq(a, occupants[c])

\* C4: an agent whose energy has reached <= 0 during an advance(), from any cause,
\* is marked dead and is absent from the live population when that advance()
\* returns.
C4_DeathDetachment ==
  (pc = "idle" /\ ret = "true") =>
    \A a \in Allocated :
      energy[a] <= 0 => (~alive[a] /\ ~InSeq(a, animals))

\* C5: within one advance(), every predator action is applied before any prey
\* action, each class in population order, and a prey killed during the tick
\* has no action applied in it.
C5_PredatorsBeforePrey ==
  pc \in {"predators", "prey", "update"} =>
    /\ \A i, j \in 1..Len(calls) :
         i < j =>
           /\ ~(kind[calls[i].who] = "Prey" /\ kind[calls[j].who] = "Predator")
           /\ kind[calls[i].who] = kind[calls[j].who] =>
                IndexOf(animals, calls[i].who) < IndexOf(animals, calls[j].who)
    /\ \A i \in 1..Len(calls) :
         kind[calls[i].who] = "Prey" => alive[calls[i].who]

\* the resolution phase is over: a predator has killed a prey that had decided
\* on an action, and another prey has acted
C5_Witness ==
  /\ pc = "update"
  /\ \E k \in 1..Len(actions) :
       kind[actions[k][1]] = "Prey" /\ ~alive[actions[k][1]]
  /\ \E i \in 1..Len(calls) : kind[calls[i].who] = "Prey"
  /\ \E i \in 1..Len(calls) : kind[calls[i].who] = "Predator"

\* C6: the perceive-and-decide phase changes no cell, no agent and no population;
\* when it ends, actions holds one decision for every living agent, in
\* population order, and no action has been applied.
C6_DecidePhaseIsPure ==
  [][/\ (pc = "decide" \/ pc' = "decide") => UNCHANGED <<world, sim>>
     /\ (pc = "decide" /\ pc' = "predators") =>
          /\ [i \in 1..Len(actions') |-> actions'[i][1]]
               = SelectSeq(animals, LAMBDA a : alive[a])
          /\ calls' = <<>>]_vars

\* phase 1 has ended with the decisions of at least two agents
C6_Witness ==
  /\ pc = "predators"
  /\ idx = 1
  /\ Len(actions) >= 2
  /\ calls = <<>>

\* C7: current_step never exceeds max_steps; an advance() that returns true
\* adds exactly 1 to it and nothing else changes it; at current_step >= max_steps
\* advance() returns false and changes no cell, agent, population or counter.
C7_HaltedIsTerminal ==
  [][/\ current_step <= max_steps
     /\ current_step' <= max_steps'
     /\ (ret' = "true" /\ ret # "true") => current_step' = current_step + 1
     /\ current_step' # current_step =>
          (ret' = "true" /\ current_step' = current_step + 1)
     /\ (pc = "idle" /\ current_step >= max_steps) =>
          (ret' = "false" /\ UNCHANGED <<world, sim, frame>>)]_vars

\* an advance() has returned false after the run reached its last step
C7_Witness ==
  /\ pc = "idle"
  /\ ret = "false"
  /\ current_step = max_steps
  /\ current_step > 0

\* C8: for every n >= 0, n = 0 included, after run(n) current_step equals
\* min(prior current_step + n, max_steps).
C8_RunPerformsAtMostN ==
  run.returned => current_step = Min(run.start + run.steps, max_steps)

\* C9: a move that returns true takes exactly move_cost from the mover's energy
\* and changes nobody else's; a move that returns false changes no energy.
C9_MoveEnergy ==
  [][(CallStep /\ calls'[Len(calls')].op = "move") =>
       LET r == calls'[Len(calls')]
       IN /\ r.ok => energy' = [energy EXCEPT ![r.who] = @ - MOVE_COST]
          /\ ~r.ok => energy' = energy]_vars

\* the calls of this tick hold a move that succeeded and a move that failed
C9_Witness ==
  /\ \E i \in 1..Len(calls) : calls[i].op = "move" /\ calls[i].ok
  /\ \E i \in 1..Len(calls) : calls[i].op = "move" /\ ~calls[i].ok

\* C10: move(direction) returns false and changes nothing when the agent is dead,
\* has energy below move_cost, is unplaced, or the destination is outside the
\* grid, is rock or holds 2 occupants; otherwise it returns true and the mover
\* is listed by the axis-adjacent destination cell and by no other.
C10_MoveOutcome ==
  [][(CallStep /\ calls'[Len(calls')].op = "move") =>
       LET r == calls'[Len(calls')]
           a == r.who
           dst == Shift(position[a], DIRECTIONS[r.dir])
           blocked == \/ ~alive[a]
                      \/ energy[a] < MOVE_COST
                      \/ position[a] = None
                      \/ dst \notin Cells
                      \/ terrain_type[dst] = "rock"
                      \/ Len(occupants[dst]) >= 2
       IN IF blocked
          THEN ~r.ok /\ UNCHANGED world
          ELSE /\ r.ok
               /\ position'[a] = dst
               /\ Count(a, occupants'[dst]) = 1
               /\ \A c \in Cells \ {dst} : Count(a, occupants'[c]) = 0
               /\ \E d \in DOMAIN DIRECTIONS :
                    dst = Shift(position[a], DIRECTIONS[d])]_vars

\* a dead, unplaced agent has just been told to move, and the move failed
C10_Witness ==
  /\ calls # <<>>
  /\ LastCall.op = "move"
  /\ ~LastCall.ok
  /\ ~alive[LastCall.who]
  /\ position[LastCall.who] = None

\* C11: consume_grass(amount) returns min(amount, prior grass) and leaves the
\* cell with its prior grass minus the returned value; on a rock cell or a soil
\* cell with no grass it returns 0 and leaves the grass unchanged; no other
\* cell's grass changes.
C11_ConsumeConserves ==
  [][(CallStep /\ calls'[Len(calls')].op = "consume_grass") =>
       LET r == calls'[Len(calls')]
           c == r.cell
       IN /\ IF terrain_type[c] = "rock" \/ grass_amount[c] = 0
             THEN r.ret = 0 /\ grass_amount'[c] = grass_amount[c]
             ELSE /\ r.ret = Min(r.amount, grass_amount[c])
                  /\ grass_amount'[c] = grass_amount[c] - r.ret
          /\ \A d \in Cells \ {c} : grass_amount'[d] = grass_amount[d]]_vars

\* a consume_grass call has just taken all the grass of a cell that held less
\* than the amount asked for
C11_Witness ==
  /\ calls # <<>>
  /\ LastCall.op = "consume_grass"
  /\ LastCall.ret > 0
  /\ LastCall.ret < LastCall.amount
  /\ grass_amount[LastCall.cell] = 0

\* C12: in every reachable state, inside a tick too, every cell's grass is >= 0
\* and every rock cell's grass is exactly 0.
C12_GrassNonNegative ==
  \A c \in Cells :
    /\ grass_amount[c] >= 0
    /\ terrain_type[c] = "rock" => grass_amount[c] = 0

\* on a grid with a rock cell, after at least one regeneration, a prey has just
\* eaten all the grass of its cell
C12_Witness ==
  /\ pc \in {"prey", "update"}
  /\ current_step >= 1
  /\ \E c \in Cells : terrain_type[c] = "rock"
  /\ \E i \in 1..Len(calls) :
       /\ calls[i].op = "eat"
       /\ calls[i].gain > 0
       /\ kind[calls[i].who] = "Prey"
       /\ grass_amount[position[calls[i].who]] = 0

\* C13: when reproduce() succeeds, exactly one new agent of the parent's species
\* is created, alive, in the parent's cell, with energy equal to half the
\* parent's energy before the deduction, and the parent's energy afterwards is
\* its prior energy minus reproduction_cost; nobody else's energy changes.
C13_ReproductionSplit ==
  [][(CallStep /\ calls'[Len(calls')].op = "reproduce" /\ calls'[Len(calls')].ok) =>
       LET a == calls'[Len(calls')].who
           born == {b \in Ids : kind[b] = "none" /\ kind'[b] # "none"}
       IN /\ Cardinality(born) = 1
          /\ \A b \in born :
               /\ kind'[b] = kind[a]
               /\ alive'[b]
               /\ position'[b] = position[a]
               /\ occupants' = [occupants EXCEPT ![position[a]] = Append(@, b)]
               /\ 2 * energy'[b] = energy[a]
               /\ energy'[a] = energy[a] - REPRODUCTION_COST
               /\ \A o \in Ids \ {a, b} : energy'[o] = energy[o]
          /\ \A o \in Allocated : kind'[o] = kind[o] /\ position'[o] = position[o]]_vars

\* a predator has just reproduced
C13_Witness ==
  /\ calls # <<>>
  /\ LastCall.op = "reproduce"
  /\ LastCall.ok
  /\ kind[LastCall.who] = "Predator"
  /\ Len(occupants[position[LastCall.who]]) = 2

\* a step in which predator.eat(prey) has just been called by a living predator
\* with energy above attack_cost on a living prey in its own cell
AttackStep ==
  /\ CallStep
  /\ calls'[Len(calls')].op = "eat"
  /\ calls'[Len(calls')].target # 0
  /\ LET a == calls'[Len(calls')].who
         prey == calls'[Len(calls')].target
     IN /\ alive[a]
        /\ alive[prey]
        /\ energy[a] > ATTACK_COST
        /\ position[a] # None
        /\ position[a] = position[prey]

\* C14: when a living predator with energy > attack_cost calls eat(prey) on a
\* living prey of its cell whose energy is > attack_damage, the predator loses
\* exactly attack_cost and gains nothing, the prey loses exactly attack_damage
\* and stays alive, and the cell still holds both.
C14_NonFatalAttack ==
  [][(AttackStep /\ energy[calls'[Len(calls')].target] > ATTACK_DAMAGE) =>
       LET r == calls'[Len(calls')]
       IN /\ r.gain = 0
          /\ energy' = [energy EXCEPT ![r.who] = @ - ATTACK_COST,
                                      ![r.target] = @ - ATTACK_DAMAGE]
          /\ alive' = alive
          /\ occupants' = occupants
          /\ position' = position]_vars

\* a prey has just survived an attack, next to its attacker
C14_Witness ==
  /\ calls # <<>>
  /\ LastCall.op = "eat"
  /\ LastCall.target # 0
  /\ LastCall.gain = 0
  /\ alive[LastCall.who]
  /\ alive[LastCall.target]
  /\ energy[LastCall.target] = INITIAL_ENERGY - ATTACK_DAMAGE
  /\ position[LastCall.who] = position[LastCall.target]
  /\ position[LastCall.who] # None

\* C15: when a living predator with energy > attack_cost calls eat(prey) on a
\* living prey of its cell whose energy is <= attack_damage, the prey is marked
\* dead, leaves the cell and has its position cleared, and the predator's energy
\* becomes min(prior - attack_cost + prey.max_energy * eat_efficiency, max_energy).
C15_FatalAttack ==
  [][(AttackStep /\ energy[calls'[Len(calls')].target] <= ATTACK_DAMAGE) =>
       LET r == calls'[Len(calls')]
           c == position[r.who]
       IN /\ ~alive'[r.target]
          /\ position'[r.target] = None
          /\ ~InSeq(r.target, occupants'[c])
          /\ \A d \in Cells : ~InSeq(r.target, occupants'[d])
          /\ alive'[r.who]
          /\ position'[r.who] = c
          /\ 10 * r.gain = 7 * max_energy("Prey")
          /\ energy'[r.who] =
               Min(energy[r.who] - ATTACK_COST + r.gain, max_energy("Predator"))]_vars

\* a predator has just killed its second prey, and the gain took it to max_energy
C15_Witness ==
  /\ calls # <<>>
  /\ LastCall.op = "eat"
  /\ LastCall.target # 0
  /\ LastCall.gain > 0
  /\ ~alive[LastCall.target]
  /\ position[LastCall.target] = None
  /\ alive[LastCall.who]
  /\ energy[LastCall.who] = max_energy("Predator")

\* C16: Prey.eat() on a placed prey whose cell holds grass r > 0 takes
\* c = min(r, 15) from the cell, leaving max(0, r - 15), and sets the prey's
\* energy to min(prior + c * eat_efficiency, max_energy); on an unplaced prey or
\* a cell without grass it changes nothing and returns 0.
C16_PreyEat ==
  [][(/\ CallStep
      /\ calls'[Len(calls')].op = "eat"
      /\ calls'[Len(calls')].target = 0
      /\ kind[calls'[Len(calls')].who] = "Prey") =>
       LET r == calls'[Len(calls')]
           a == r.who
           cell == position[a]
       IN IF cell # None /\ grass_amount[cell] > 0
          THEN LET c == IF grass_amount[cell] <= EAT_AMOUNT
                        THEN grass_amount[cell] ELSE EAT_AMOUNT
                   left == IF grass_amount[cell] - EAT_AMOUNT >= 0
                           THEN grass_amount[cell] - EAT_AMOUNT ELSE 0
               IN /\ grass_amount' = [grass_amount EXCEPT ![cell] = left]
                  /\ grass_amount[cell] - grass_amount'[cell] = c
                  /\ 100 * r.gain = 7 * c * EnergyUnit
                  /\ energy' = [energy EXCEPT ![a] =
                                  Min(@ + r.gain, max_energy("Prey"))]
                  /\ UNCHANGED <<occupants, position, alive, kind>>
          ELSE r.gain = 0 /\ UNCHANGED world]_vars

\* a prey has just eaten a full eat_amount, and the gain took it to max_energy
C16_Witness ==
  /\ calls # <<>>
  /\ LastCall.op = "eat"
  /\ LastCall.target = 0
  /\ kind[LastCall.who] = "Prey"
  /\ 10 * LastCall.gain = 7 * 15 * EnergyUnit
  /\ energy[LastCall.who] = max_energy("Prey")
  /\ grass_amount[position[LastCall.who]] > 0

\* C17: add_animal(animal) on a cell that already holds 2 occupants returns
\* false and leaves the cell's occupant list, both occupants' positions and the
\* rejected animal's position unchanged.
C17_FullCellRejects ==
  [][(/\ CallStep
      /\ calls'[Len(calls')].op = "add_animal"
      /\ Len(occupants[calls'[Len(calls')].cell]) = 2) =>
       LET r == calls'[Len(calls')]
       IN /\ ~r.ok
          /\ occupants'[r.cell] = occupants[r.cell]
          /\ \A i \in 1..2 :
               position'[occupants[r.cell][i]] = position[occupants[r.cell][i]]
          /\ position'[r.who] = position[r.who]
          /\ UNCHANGED world]_vars

\* a full cell has just rejected a third animal, which stays where it was
C17_Witness ==
  /\ calls # <<>>
  /\ LastCall.op = "add_animal"
  /\ ~LastCall.ok
  /\ Len(occupants[LastCall.cell]) = 2
  /\ ~InSeq(LastCall.who, occupants[LastCall.cell])
  /\ position[LastCall.who] \in Cells \ {LastCall.cell}

\* C18: in every reachable state, every agent's energy lies in [0, max_energy],
\* whatever moves, eats, attacks (as attacker or as target) and reproductions
\* came before.
C18_EnergyBounded ==
  \A a \in Allocated :
    /\ energy[a] >= 0
    /\ energy[a] <= max_energy(kind[a])

\* the living agents of class k that some cell of the grid lists
LivingOnGrid(k) ==
  {a \in Allocated :
     alive[a] /\ kind[a] = k /\ \E c \in Cells : InSeq(a, occupants[c])}

\* C19: when an advance() returns, the live population holds exactly the agents
\* that were live before the tick and are still alive, in their order, followed
\* by one new agent for each reproduce() that succeeded in the tick; every
\* living agent is listed exactly once and no dead one is listed; and
\* get_population_counts() equals the numbers of living Prey and living
\* Predator that occupy grid cells.
C19_PopulationUpdate ==
  [][(pc = "update" /\ pc' = "idle") =>
       LET survivors == SelectSeq(animals, LAMBDA a : alive[a])
           births == Cardinality({i \in 1..Len(calls) :
                                    calls[i].op = "reproduce" /\ calls[i].ok})
       IN /\ Len(animals') = Len(survivors) + births
          /\ SubSeq(animals', 1, Len(survivors)) = survivors
          /\ \A i \in (Len(survivors) + 1)..Len(animals') :
               ~InSeq(animals'[i], animals)
          /\ \A a \in Allocated' :
               Count(a, animals') = IF alive'[a] THEN 1 ELSE 0
          /\ get_population_counts' =
               <<Cardinality(LivingOnGrid("Prey")'),
                 Cardinality(LivingOnGrid("Predator")')>>]_vars

\* an advance() has returned with an offspring in the live population and a
\* dead agent outside it
C19_Witness ==
  /\ pc = "idle"
  /\ ret = "true"
  /\ get_population_counts[2] >= 2
  /\ \E a \in Allocated : ~alive[a] /\ ~InSeq(a, animals)

\* C20: a construction with a grid side <= 0 raises, whatever the other
\* arguments, zero initial prey and predators included: no simulation with an
\* empty world is produced.
C20_NonPositiveSizeRejected ==
  size <= 0 => pc = "raised"

\* a step of the perceive-and-decide loop in which animal a takes its decision
DecisionOf(a) ==
  /\ pc = "decide"
  /\ idx <= Len(animals)
  /\ animals[idx] = a
  /\ alive[a]
  /\ idx' = idx + 1
  /\ Len(actions') = Len(actions) + 1

\* the action decided in a decision step
Decided == actions'[Len(actions')][2]

\* C21: a living prey that is the only occupant of its cell, with energy below
\* 70% of max_energy and grass > 0 in its cell, decides Eat, whether or not an
\* adjacent soil cell has room.
C21_HungryPreyEats ==
  [][\A a \in Allocated :
       (/\ DecisionOf(a)
        /\ kind[a] = "Prey"
        /\ occupants[position[a]] = <<a>>
        /\ 10 * energy[a] < 7 * max_energy("Prey")
        /\ grass_amount[position[a]] > 0) => Decided[1] = EAT]_vars

\* the living prey that share the cell of animal a
PreyWith(a) ==
  {p \in Allocated :
     /\ kind[p] = "Prey"
     /\ alive[p]
     /\ position[a] # None
     /\ position[p] = position[a]
     /\ InSeq(p, occupants[position[a]])}

\* C22: a living predator that shares its cell with a living prey when the tick
\* starts decides Eat targeting that prey; and when a predator's Eat is applied
\* in phase 2, the predator pays attack_cost while its target is still alive,
\* still in the predator's cell and has not yet acted in this tick.
C22_AttackBeforeEscape ==
  [][/\ \A a \in Allocated :
          (DecisionOf(a) /\ kind[a] = "Predator" /\ PreyWith(a) # {}) =>
             /\ Decided[1] = EAT
             /\ Len(Decided[2]) = 1
             /\ Decided[2][1] \in PreyWith(a)
     /\ (/\ pc = "predators"
         /\ idx <= Len(actions)
         /\ idx' = idx + 1
         /\ kind[actions[idx][1]] = "Predator"
         /\ actions[idx][2][1] = EAT) =>
          LET a == actions[idx][1]
              p == actions[idx][2][2][1]
          IN /\ alive[a]
             /\ p \in PreyWith(a)
             /\ \A i \in 1..Len(calls) : calls[i].who # p
             /\ CallStep
             /\ calls'[Len(calls')].who = a
             /\ calls'[Len(calls')].target = p
             /\ energy'[a] = Min(energy[a] - ATTACK_COST + calls'[Len(calls')].gain,
                                 max_energy("Predator"))]_vars

\* a prey was attacked in this tick and afterwards moved out of the cell
C22_Witness ==
  /\ pc \in {"prey", "update"}
  /\ \E i, j \in 1..Len(calls) :
       /\ i < j
       /\ calls[i].op = "eat"
       /\ calls[i].target # 0
       /\ calls[j].who = calls[i].target
       /\ calls[j].op = "move"
       /\ calls[j].ok
       /\ position[calls[j].who] # position[calls[i].who]

\* the offsets, among vs, of the cells of the grid around animal a that list a
\* prey (living, if live is set)
PreyOffsets(a, vs, live) ==
  {v \in vs :
     /\ Shift(position[a], v) \in Cells
     /\ \E i \in 1..Len(occupants[Shift(position[a], v)]) :
          LET o == occupants[Shift(position[a], v)][i]
          IN kind[o] = "Prey" /\ (live => alive[o])}

Axis == {<<-1, 0>>, <<1, 0>>, <<0, -1>>, <<0, 1>>}

Diagonal == {<<-1, -1>>, <<-1, 1>>, <<1, -1>>, <<1, 1>>}

\* C23: a predator with no prey in its own cell and none in its four
\* axis-adjacent cells, with energy below 60% of max_energy, that perceives a
\* living prey in a diagonal cell decides a Move along one of the two axis
\* directions toward that prey.
C23_DiagonalPursuit ==
  [][\A a \in Allocated :
       (/\ DecisionOf(a)
        /\ kind[a] = "Predator"
        /\ PreyOffsets(a, {<<0, 0>>}, FALSE) = {}
        /\ PreyOffsets(a, Axis, FALSE) = {}
        /\ 10 * energy[a] < 6 * max_energy("Predator")
        /\ PreyOffsets(a, Diagonal, TRUE) # {}) =>
          /\ Decided[1] = MOVE
          /\ \E v \in PreyOffsets(a, Diagonal, TRUE) :
               DIRECTIONS[Decided[2][1]] \in {<<v[1], 0>>, <<0, v[2]>>}]_vars

\* C24: step(perception) called on an already-dead Prey or Predator, whose
\* perception is empty, returns (False, []) without raising and without
\* changing any agent or cell.
C24_StepOnDead ==
  [][(/\ CallStep
      /\ calls'[Len(calls')].op = "step"
      /\ ~alive[calls'[Len(calls')].who]) =>
       /\ calls'[Len(calls')].raised = ""
       /\ ~calls'[Len(calls')].ok
       /\ calls'[Len(calls')].offspring = <<>>
       /\ UNCHANGED world]_vars

\* C25: Predator.eat(prey) returns 0 and changes no energy, no alive flag and
\* no occupant list whenever the predator and the prey do not share a cell,
\* also when one or both of them are unplaced.
C25_EatApart ==
  [][(/\ CallStep
      /\ calls'[Len(calls')].op = "eat"
      /\ calls'[Len(calls')].target # 0
      /\ LET a == calls'[Len(calls')].who
             p == calls'[Len(calls')].target
         IN \/ position[a] = None
            \/ position[p] = None
            \/ position[a] # position[p]) =>
       /\ calls'[Len(calls')].gain = 0
       /\ calls'[Len(calls')].raised = ""
       /\ UNCHANGED world]_vars

\* every animal is in at most one occupant list, at most once, and its
\* position is the cell whose list holds it
OccupancyConsistent(w) ==
  \A a \in Ids :
    /\ \A c \in Cells : Count(a, w.occ[c]) <= 1
    /\ \A c, d \in Cells : InSeq(a, w.occ[c]) /\ InSeq(a, w.occ[d]) => c = d
    /\ \A c \in Cells : (w.pos[a] = c) <=> InSeq(a, w.occ[c])

CellCall ==
  /\ CallStep
  /\ calls'[Len(calls')].op \in {"add_animal", "remove_animal", "clear_occupants"}

\* C26: Cell.add_animal, Cell.remove_animal and Cell.clear_occupants, called on
\* any cell with any animal (also one that is already an occupant of that or of
\* another cell), leave every animal in at most one occupant list, at most
\* once, with position = c exactly when the animal is in c's list.
C26_CellCallsKeepConsistency ==
  [][(CellCall /\ OccupancyConsistent(World)) => OccupancyConsistent(World)']_vars

\* the cell a move of a in direction dir asks for (it may lie off the grid)
Destination(a, dir) == Shift(position[a], DIRECTIONS[dir])

\* C27: an action applied after the world has moved on is safe. Eat(prey) on a
\* prey that is already dead returns 0 and changes nothing; a Move whose
\* destination is full and a Reproduce whose own cell is full fail and change
\* nothing.
C27_StaleActionSafe ==
  [][CallStep =>
      LET call == calls'[Len(calls')]
      IN /\ (call.op = "eat" /\ call.target # 0 /\ ~alive[call.target]) =>
              /\ call.gain = 0
              /\ UNCHANGED world
         /\ (/\ call.op = "move"
             /\ position[call.who] # None
             /\ Destination(call.who, call.dir) \in Cells
             /\ ~can_add_animal(World, Destination(call.who, call.dir))) =>
              /\ ~call.ok
              /\ UNCHANGED world
         /\ (/\ call.op = "reproduce"
             /\ position[call.who] # None
             /\ ~can_add_animal(World, position[call.who])) =>
              /\ ~call.ok
              /\ UNCHANGED world]_vars

\* inside one tick a first animal has moved into a cell and filled it, and the
\* move of a second animal, decided before that, into the same cell has failed
C27_Witness ==
  /\ pc \in {"predators", "prey"}
  /\ Len(calls) = 2
  /\ calls[1].op = "move" /\ calls[1].ok
  /\ calls[2].op = "move" /\ ~calls[2].ok
  /\ calls[1].who # calls[2].who
  /\ alive[calls[2].who] /\ energy[calls[2].who] >= MOVE_COST
  /\ Destination(calls[2].who, calls[2].dir) \in Cells
  /\ Destination(calls[2].who, calls[2].dir) = position[calls[1].who]
  /\ occupant_count(World, position[calls[1].who]) = 2

\* a predator has been told to eat a prey that was already dead
C27_WitnessEat ==
  /\ Len(calls) > 0
  /\ calls[Len(calls)].op = "eat"
  /\ calls[Len(calls)].target # 0
  /\ ~alive[calls[Len(calls)].target]
  /\ alive[calls[Len(calls)].who]

\* C28: in every state reached from construction by next_step() calls, no rock
\* cell has an occupant: placement, moves and reproduction only put animals on
\* soil cells.
C28_RocksEmpty ==
  \A c \in Cells : terrain_type[c] = "rock" => occupant_count(World, c) = 0

\* inside a tick a living animal with energy to move has asked for a rock cell
\* and has been refused
C28_Witness ==
  /\ pc \in {"predators", "prey"}
  /\ Len(calls) > 0
  /\ LET call == calls[Len(calls)]
     IN /\ call.op = "move"
        /\ ~call.ok
        /\ alive[call.who]
        /\ energy[call.who] >= MOVE_COST
        /\ position[call.who] # None
        /\ Destination(call.who, call.dir) \in Cells
        /\ terrain_type[Destination(call.who, call.dir)] = "rock"

\* C29: at construction and whenever a next_step() has returned, every animal
\* of Simulation.animals is alive and has 0 <= energy <= its max_energy; an
\* energy below 0 is found only on animals marked dead.
C29_LivePopulationSound ==
  /\ pc = "idle" =>
       \A i \in 1..Len(animals) :
         /\ alive[animals[i]]
         /\ energy[animals[i]] >= 0
         /\ energy[animals[i]] <= max_energy(kind[animals[i]])
  /\ \A a \in Allocated : energy[a] < 0 => ~alive[a]

\* a tick has returned leaving a dead animal with negative energy outside the
\* list and a living animal inside it
C29_Witness ==
  /\ pc = "idle"
  /\ ret = "true"
  /\ Len(animals) > 0
  /\ \E a \in Allocated : energy[a] < 0 /\ ~alive[a] /\ ~InSeq(a, animals)

\* ------------------------------------------- Simulation._initialize_animals
\* the constructor arguments whose placement loops are followed draw by draw
Requests ==
  [size : {1, 2}, initial_prey : {0, 1, 2}, initial_predators : {0, 1},
   max_steps : {1}, grass_regrowth_rate : {1}]

\* Simulation.__init__ up to the call of _initialize_animals: the Ecosystem is
\* built (each cell rock or soil, independently), animals = [], and calls holds
\* the constructor call in progress
ConstructBegin(cfg) ==
  \E g \in InitialGrass :
   \E rocks \in SUBSET Grid(cfg.size) :
    /\ size = cfg.size
    /\ max_steps = cfg.max_steps
    /\ grass_regrowth_rate = cfg.grass_regrowth_rate
    /\ terrain_type = [c \in Grid(cfg.size) |-> IF c \in rocks THEN "rock" ELSE "soil"]
    /\ grass_amount = [c \in Grid(cfg.size) |-> IF c \in rocks THEN 0 ELSE g]
    /\ occupants = [c \in Grid(cfg.size) |-> <<>>]
    /\ kind = [a \in Ids |-> "none"]
    /\ position = [a \in Ids |-> None]
    /\ alive = [a \in Ids |-> FALSE]
    /\ energy = [a \in Ids |-> 0]
    /\ animals = <<>>
    /\ current_step = 0
    /\ pc = "construct"
    /\ idx = 0
    /\ actions = <<>>
    /\ new_animals = <<>>
    /\ dead_animals = <<>>
    /\ ret = "none"
    /\ calls = <<[op |-> "Simulation", prey_count |-> cfg.initial_prey,
                  predator_count |-> cfg.initial_predators]>>
    /\ run = [active |-> FALSE, returned |-> FALSE, steps |-> 0, left |-> 0,
              start |-> 0]

InitPlace == \E cfg \in Requests : ConstructBegin(cfg)

\* the animals _initialize_animals has been asked for
Requested == calls[1].prey_count + calls[1].predator_count

\* one iteration of `while not placed`: a cell is drawn; a soil cell with room
\* takes the new animal (prey first, then predators), any other draw changes
\* nothing and the loop goes round again
PlaceTry ==
  /\ pc = "construct"
  /\ Len(animals) < Requested
  /\ \E cell \in Cells :
       IF terrain_type[cell] # "rock" /\ can_add_animal(World, cell)
       THEN LET a == NewId
                w1 == [World EXCEPT
                         !.kind[a] = IF Len(animals) < calls[1].prey_count
                                     THEN "Prey" ELSE "Predator",
                         !.pos[a] = cell,
                         !.alive[a] = TRUE,
                         !.energy[a] = INITIAL_ENERGY]
            IN /\ Store(add_animal(w1, cell, a).w)
               /\ animals' = Append(animals, a)
       ELSE UNCHANGED <<world, animals>>
  /\ UNCHANGED <<size, max_steps, current_step, grass_regrowth_rate, frame, ret,
                 calls, run>>

\* both for-loops are exhausted: the constructor returns
ConstructDone ==
  /\ pc = "construct"
  /\ Len(animals) = Requested
  /\ pc' = "idle"
  /\ calls' = <<>>
  /\ UNCHANGED <<world, sim, idx, actions, new_animals, dead_animals, ret, run>>

NextPlace ==
  \/ PlaceTry
  \/ ConstructDone
  \/ Next

SpecPlace == InitPlace /\ [][NextPlace]_vars

\* fair random choice: while some draw places an animal, one is made in the end
SpecPlaceFair == SpecPlace /\ WF_vars(PlaceTry) /\ WF_vars(ConstructDone)

\* the animals of class k that are in Simulation.animals and on a cell
PlacedOf(k) ==
  Cardinality({a \in Allocated :
                 kind[a] = k /\ position[a] \in Cells /\ InSeq(a, animals)})

\* C30: the construction of a Simulation terminates for every grid, rock layout
\* and requested numbers of prey and predators, with exactly the requested prey
\* and predators placed, also when more animals are requested than twice the
\* number of soil cells.
C30_ConstructionTerminates ==
  /\ <>(/\ pc = "construct"
        /\ PlacedOf("Prey") = calls[1].prey_count
        /\ PlacedOf("Predator") = calls[1].predator_count)
  /\ <>(pc = "idle")

\* the animals that have had an action applied in the tick under way
Acted == {calls[i].who : i \in 1..Len(calls)}

\* C31: within one advance() every agent has at most one action applied; an
\* offspring created in the advance() has no action applied in it, is outside
\* the live population until the population update, and is in it exactly once
\* after that update.
C31_OneActionNoneForOffspring ==
  [][/\ pc \in {"predators", "prey", "update"} =>
          /\ \A i, j \in 1..Len(calls) : calls[i].who = calls[j].who => i = j
          /\ \A a \in Ids : InSeq(a, new_animals) =>
               /\ a \notin Acted
               /\ ~InSeq(a, animals)
               /\ Count(a, new_animals) = 1
     /\ (pc = "update" /\ pc' = "idle") =>
          /\ \A a \in Ids : InSeq(a, new_animals) => Count(a, animals') = 1
          /\ \A a \in Ids : Count(a, animals') <= 1]_vars

\* an offspring has been born in a tick in which another animal has had its
\* action applied too, and the phase-2 loops are over
C31_Witness ==
  /\ pc = "update"
  /\ Len(new_animals) > 0
  /\ Len(calls) >= 2
  /\ \E i \in 1..Len(calls) : calls[i].op = "reproduce" /\ calls[i].ok
====
